---- MODULE Spec2Model ----
(***************************************************************************)
(* A model of rpix (src/src/lib.rs, src/src/main.rs, src/src/render.rs):   *)
(* the library's pure functions (parse_color, add_background, parse_pages, *)
(* get_term_size, calculate_dimensions), the format dispatcher (load_file / *)
(* load_data), the protocol encoder (render_image) and the command line    *)
(* program around them (prepare_writer, run, main).                        *)
(*                                                                         *)
(* Text is modelled as a sequence of one-character strings, bytes as       *)
(* integers 0..255.  A u32 whose value is 2^31 or more is written as its   *)
(* two's complement reading (value - 2^32), the only form that TLC's       *)
(* integers can hold.                                                      *)
(***************************************************************************)
EXTENDS Integers, Sequences, FiniteSets, TLC

VARIABLES
    fn, args, ret,                     \* a call of one library function
    features, fs, ctx, frame, hops, decoder, load_res,   \* load_file / load_data
    conf, img, term_size, rpc, final_img, header, encoded, pos, is_first,
    out, render_res,                   \* render_image
    stdin, dest, temp, mpc, exit_code, idx, attempted, err_out   \* main / run

libVars == <<fn, args, ret>>
loadVars == <<features, fs, ctx, frame, hops, decoder, load_res>>
renderVars == <<conf, img, term_size, rpc, final_img, header, encoded, pos,
                is_first, out, render_res>>
runVars == <<stdin, dest, temp, mpc, exit_code, idx, attempted, err_out>>
vars == <<fn, args, ret, features, fs, ctx, frame, hops, decoder, load_res,
          conf, img, term_size, rpc, final_img, header, encoded, pos,
          is_first, out, render_res, stdin, dest, temp, mpc, exit_code, idx,
          attempted, err_out>>

(***************************************************************************)
(* Text helpers                                                            *)
(***************************************************************************)
Min(a, b) == IF a < b THEN a ELSE b

\* All texts over alphabet A of length at most n.
Texts(A, n) == UNION {[1..k -> A] : k \in 0..n}

Drop(s, n) == SubSeq(s, n + 1, Len(s))

StartsWith(s, p) == Len(s) >= Len(p) /\ SubSeq(s, 1, Len(p)) = p

Contains(s, c) == \E i \in 1..Len(s) : s[i] = c

\* The index of the first c in s, or 0.
IndexOf(s, c) ==
    IF Contains(s, c) THEN CHOOSE i \in 1..Len(s) :
                               s[i] = c /\ \A j \in 1..(i - 1) : s[j] # c
    ELSE 0

DecDigits == <<"0", "1", "2", "3", "4", "5", "6", "7", "8", "9">>
HexLower == <<"0", "1", "2", "3", "4", "5", "6", "7", "8", "9",
              "a", "b", "c", "d", "e", "f">>
HexUpper == <<"0", "1", "2", "3", "4", "5", "6", "7", "8", "9",
              "A", "B", "C", "D", "E", "F">>

\* char::to_digit(radix): the digit's value, or -1.
ToDigit(c, radix) ==
    IF \E i \in 1..radix : HexLower[i] = c
    THEN (CHOOSE i \in 1..radix : HexLower[i] = c) - 1
    ELSE IF \E i \in 1..radix : HexUpper[i] = c
    THEN (CHOOSE i \in 1..radix : HexUpper[i] = c) - 1
    ELSE -1

RECURSIVE AccDigits(_, _, _, _)
\* The digits of s accumulated on acc, -1 on an invalid digit or a value above max.
AccDigits(s, radix, max, acc) ==
    IF s = <<>> THEN acc
    ELSE LET d == ToDigit(s[1], radix) IN
         IF d < 0 THEN -1
         ELSE IF acc * radix + d > max THEN -1
         ELSE AccDigits(Drop(s, 1), radix, max, acc * radix + d)

\* uN::from_str_radix(s, radix) of the standard library, for an unsigned type
\* of maximum max: an optional leading '+', then at least one digit; a '-'
\* is an invalid digit.  The value, or -1 for Err.
FromStrRadix(s, radix, max) ==
    IF s = <<>> THEN -1
    ELSE LET digits == IF s[1] = "+" THEN Drop(s, 1) ELSE s IN
         IF digits = <<>> THEN -1 ELSE AccDigits(digits, radix, max, 0)

U8Max == 255
U16Max == 65535

Err == [tag |-> "Err"]
Ok(v) == [tag |-> "Ok", val |-> v]
NoRet == [tag |-> "none"]

(***************************************************************************)
(* parse_color                                                             *)
(***************************************************************************)
RECURSIVE TrimStartMatches(_, _)
\* str::trim_start_matches(c): every leading c is removed.
TrimStartMatches(s, c) ==
    IF s # <<>> /\ s[1] = c THEN TrimStartMatches(Drop(s, 1), c) ELSE s

parse_color(color) ==
    LET c == TrimStartMatches(color, "#") IN
    IF Len(c) # 6 THEN Err
    ELSE LET r == FromStrRadix(SubSeq(c, 1, 2), 16, U8Max)
             g == FromStrRadix(SubSeq(c, 3, 4), 16, U8Max)
             b == FromStrRadix(SubSeq(c, 5, 6), 16, U8Max)
         IN IF r < 0 \/ g < 0 \/ b < 0 THEN Err ELSE Ok(<<r, g, b, 255>>)

(***************************************************************************)
(* add_background                                                          *)
(***************************************************************************)
\* `as u8`: the low eight bits.
AsU8(n) == n % 256

\* A mutant: the blend rounds to nearest instead of truncating.
BlendRounded(src, alpha, bg) == AsU8((src * alpha + bg * (255 - alpha) + 127) \div 255)

\* One channel of the manual blend, in u32.
Blend(src, alpha, bg) == AsU8((src * alpha + bg * (255 - alpha)) \div 255)

\* The loop body: one destination pixel from one source pixel.
BackgroundPixel(src, color) ==
    LET alpha == src[4] IN
    IF alpha = 255 THEN src
    ELSE IF alpha = 0 THEN color
    ELSE <<Blend(src[1], alpha, color[1]), Blend(src[2], alpha, color[2]),
           Blend(src[3], alpha, color[3]), 255>>

\* An image is its width, height and row-major RGBA pixels.
Image(w, h, px) == [w |-> w, h |-> h, px |-> px]

add_background(image, color) ==
    Image(image.w, image.h,
          [i \in 1..Len(image.px) |-> BackgroundPixel(image.px[i], color)])

(***************************************************************************)
(* parse_pages                                                             *)
(***************************************************************************)
IsWhitespace(c) == c \in {" ", "\t", "\n"}

RECURSIVE TrimStart(_)
TrimStart(s) == IF s # <<>> /\ IsWhitespace(s[1]) THEN TrimStart(Drop(s, 1)) ELSE s

RECURSIVE TrimEnd(_)
TrimEnd(s) ==
    IF s # <<>> /\ IsWhitespace(s[Len(s)]) THEN TrimEnd(SubSeq(s, 1, Len(s) - 1))
    ELSE s

\* str::trim
Trim(s) == TrimEnd(TrimStart(s))

RECURSIVE Split(_, _)
\* str::split(c): the pieces between the separators, at least one piece.
Split(s, c) ==
    LET i == IndexOf(s, c) IN
    IF i = 0 THEN <<s>>
    ELSE <<SubSeq(s, 1, i - 1)>> \o Split(Drop(s, i), c)

RECURSIVE Merge(_, _)
\* The merge of two sorted runs; of equal elements those of a come first.
Merge(a, b) ==
    IF a = <<>> THEN b
    ELSE IF b = <<>> THEN a
    ELSE LET mid == (Len(a) + 1) \div 2
             below == Cardinality({j \in 1..Len(b) : b[j] < a[mid]})
         IN Merge(SubSeq(a, 1, mid - 1), SubSeq(b, 1, below))
                \o <<a[mid]>>
                \o Merge(Drop(a, mid), Drop(b, below))

RECURSIVE Sort(_)
\* Vec::sort: a stable merge sort.
Sort(s) ==
    IF Len(s) < 2 THEN s
    ELSE LET half == Len(s) \div 2 IN
         Merge(Sort(SubSeq(s, 1, half)), Sort(Drop(s, half)))

RECURSIVE Dedup(_)
\* Vec::dedup: of consecutive equal elements only the first is kept.
Dedup(s) ==
    IF Len(s) < 2 THEN s
    ELSE LET half == Len(s) \div 2
             left == Dedup(SubSeq(s, 1, half))
             right == Dedup(Drop(s, half))
         IN IF left[Len(left)] = right[1] THEN left \o Drop(right, 1)
            ELSE left \o right

\* One token of the loop: the indices it pushes, or Err.
ParsePart(part) ==
    IF Contains(part, "-")
    THEN LET parts == Split(part, "-")
             start == FromStrRadix(Trim(parts[1]), 10, U16Max)
             end == FromStrRadix(Trim(parts[2]), 10, U16Max)
         IN IF start < 0 THEN Err
            ELSE IF end < 0 THEN Err
            ELSE IF start < 1 \/ end <= start THEN Err
            ELSE Ok([k \in 1..(end - start + 1) |-> start + k - 2])
    ELSE LET index == FromStrRadix(part, 10, U16Max) IN
         IF index < 0 THEN Err
         ELSE IF index < 1 THEN Err
         ELSE Ok(<<index - 1>>)

RECURSIVE ParseParts(_, _)
\* The for loop over the comma-separated parts: the pushed indices, or Err.
ParseParts(parts, result) ==
    IF parts = <<>> THEN Ok(result)
    ELSE LET part == Trim(parts[1]) IN
         IF part = <<>> THEN ParseParts(Drop(parts, 1), result)
         ELSE LET r == ParsePart(part) IN
              IF r.tag = "Err" THEN Err
              ELSE ParseParts(Drop(parts, 1), result \o r.val)

None == [some |-> FALSE]
Some(v) == [some |-> TRUE, v |-> v]

parse_pages(pages) ==
    LET r == ParseParts(Split(pages, ","), <<>>) IN
    IF r.tag = "Err" THEN Err
    ELSE IF r.val = <<>> THEN Ok(None)
    ELSE Ok(Some(Dedup(Sort(r.val))))

(***************************************************************************)
(* get_term_size                                                           *)
(***************************************************************************)
\* u32 division of a by b > 0, a in two's complement reading when negative.
U32Div(a, b) ==
    IF a >= 0 THEN a \div b
    ELSE IF b = 1 THEN a
    ELSE LET x == (a + 2147483647) + 1
             y == 2147483647
         IN (x \div b) + (y \div b) + ((x % b) + (y % b) + 1) \div b

\* What get_term_size does with the answer of crossterm::terminal::window_size:
\* query is [ok |-> FALSE] or [ok |-> TRUE, rows, columns, width, height].
\* An overflowing u32 subtraction panics in a build with overflow checks
\* ("debug") and wraps in one without ("release"); a division by zero panics
\* in both.  panic: "" when the function returns; wrapped: a subtraction wrapped.
get_term_size(query, build) ==
    LET fallback == [panic |-> "", wrapped |-> FALSE, size |-> <<800, 400>>] IN
    IF ~query.ok THEN fallback
    ELSE LET cols == query.columns
             rows == query.rows
             width == IF query.width > 0 THEN query.width
                      ELSE IF cols > 0 THEN cols * 10
                      ELSE 800
             underflow == rows < 2
         IN IF query.height > 0
            THEN IF cols > 0
                 THEN IF underflow /\ build = "debug"
                      THEN [panic |-> "attempt to subtract with overflow",
                            wrapped |-> FALSE, size |-> <<width, query.height>>]
                      ELSE IF rows = 0
                      THEN [panic |-> "attempt to divide by zero",
                            wrapped |-> underflow, size |-> <<width, query.height>>]
                      ELSE [panic |-> "", wrapped |-> underflow,
                            size |-> <<width, U32Div(query.height * (rows - 2), rows)>>]
                 ELSE [panic |-> "", wrapped |-> FALSE, size |-> <<width, query.height>>]
            ELSE IF rows > 0
            THEN IF underflow /\ build = "debug"
                 THEN [panic |-> "attempt to subtract with overflow",
                       wrapped |-> FALSE, size |-> <<width, 400>>]
                 ELSE [panic |-> "", wrapped |-> underflow,
                       size |-> <<width, (rows - 2) * 20>>]
            ELSE [panic |-> "", wrapped |-> FALSE, size |-> <<width, 400>>]

(***************************************************************************)
(* load_file / load_data                                                   *)
(*                                                                         *)
(* features: the cargo features the binary was built with.  fs: the        *)
(* regular files, path -> content.  frame: the call in progress, either    *)
(* load_file(ctx, path) or load_data(ctx, data, extension); both calls are *)
(* tail calls, so one frame is the whole stack.  hops: how many times      *)
(* load_data has called load_file back.  decoder: the decoder calls made.  *)
(***************************************************************************)
RECURSIVE LastIndexOf(_, _)
\* The index of the last c in s, or 0.
LastIndexOf(s, c) ==
    IF s = <<>> THEN 0
    ELSE IF s[Len(s)] = c THEN Len(s)
    ELSE LastIndexOf(SubSeq(s, 1, Len(s) - 1), c)

\* Path::extension: what follows the last '.' of the file name, "" when the
\* name has no '.' or only a leading one.
Extension(path) ==
    LET name == Drop(path, LastIndexOf(path, "/"))
        dot == LastIndexOf(name, ".")
    IN IF dot <= 1 THEN <<>> ELSE Drop(name, dot)

\* std::str::from_utf8 succeeds: no byte of the text is the invalid one.
IsUtf8(data) == ~Contains(data, "0xFF")

\* image::load_from_memory succeeds: the data is an image the image crate
\* decodes, recognised here by its magic.
ImageMagic == <<"0x89", "P", "N", "G">>
IsImage(data) == StartsWith(data, ImageMagic)

\* render::is_url
is_url(s) ==
    \/ StartsWith(s, <<"h", "t", "t", "p", ":", "/", "/">>)
    \/ StartsWith(s, <<"h", "t", "t", "p", "s", ":", "/", "/">>)
    \/ StartsWith(s, <<"f", "i", "l", "e", ":", "/", "/">>)

\* render::is_html
is_html(c, extension, s) ==
    \/ c.input_type = "Html"
    \/ extension = <<"h", "t", "m", "l">>
    \/ extension = <<"h", "t", "m">>
    \/ is_url(s)

FileFrame(path) == [kind |-> "file", path |-> path]
DataFrame(data, extension) == [kind |-> "data", data |-> data, extension |-> extension]
DoneFrame == [kind |-> "done"]

ErrMsg(msg) == [tag |-> "Err", msg |-> msg]
Loaded(by) == [tag |-> "Ok", by |-> by]

\* A decoder collaborator returns: its answer is the environment's.
Decoded(name, pages, ok) ==
    /\ decoder' = Append(decoder, [name |-> name, pages |-> pages])
    /\ load_res' = IF ok THEN Loaded(name) ELSE ErrMsg("decoder failed")
    /\ frame' = DoneFrame
    /\ hops' = hops

\* load_file: the html test on the path, then the file is read and handed
\* to load_data with the path's extension.
LoadFile ==
    /\ frame.kind = "file"
    /\ LET extension == Extension(frame.path) IN
       IF "html" \in features /\ is_html(ctx, extension, frame.path)
       THEN \E ok \in BOOLEAN : Decoded("render_html_chrome", None, ok)
       ELSE IF frame.path \notin DOMAIN fs
       THEN /\ load_res' = ErrMsg("Failed to open file")
            /\ frame' = DoneFrame
            /\ UNCHANGED <<decoder, hops>>
       ELSE /\ frame' = DataFrame(fs[frame.path], extension)
            /\ UNCHANGED <<decoder, hops, load_res>>
    /\ UNCHANGED <<features, fs, ctx>>

\* The fallback of load_data for InputType::Auto: a raster decode, then the
\* text as the path of an existing file, handed to load_file.
LoadDataFallback ==
    IF IsImage(frame.data)
    THEN /\ load_res' = Loaded("image")
         /\ frame' = DoneFrame
         /\ UNCHANGED <<decoder, hops>>
    ELSE IF IsUtf8(frame.data) /\ Trim(frame.data) \in DOMAIN fs
    THEN /\ frame' = FileFrame(Trim(frame.data))
         /\ hops' = hops + 1
         /\ UNCHANGED <<decoder, load_res>>
    ELSE /\ load_res' = ErrMsg("Failed to decode input")
         /\ frame' = DoneFrame
         /\ UNCHANGED <<decoder, hops>>

MaxHops == 3

\* load_data: the explicit types, then each compiled-in format in the
\* source's order, then the fallback.
LoadData ==
    /\ frame.kind = "data"
    /\ hops < MaxHops
    /\ LET data == frame.data
           extension == frame.extension
       IN IF ctx.input_type = "Text"
          THEN /\ load_res' = ErrMsg("Text input not implemented yet")
               /\ frame' = DoneFrame
               /\ UNCHANGED <<decoder, hops>>
          ELSE IF ctx.input_type = "Image"
          THEN /\ load_res' = IF IsImage(data) THEN Loaded("image")
                              ELSE ErrMsg("Failed to load image")
               /\ frame' = DoneFrame
               /\ UNCHANGED <<decoder, hops>>
          ELSE IF /\ "svg" \in features
                  /\ \/ ctx.input_type = "Svg"
                     \/ extension = <<"s", "v", "g">>
                     \/ StartsWith(data, <<"<", "s", "v", "g">>)
                     \/ StartsWith(data, <<"<", "?", "x", "m", "l">>)
          THEN \E ok \in BOOLEAN : Decoded("render_svg", None, ok)
          ELSE IF /\ "pdf" \in features
                  /\ \/ ctx.input_type = "Pdf"
                     \/ extension = <<"p", "d", "f">>
                     \/ StartsWith(data, <<"%", "P", "D", "F">>)
          THEN \E ok \in BOOLEAN : Decoded("render_pdf", ctx.page_indices, ok)
          ELSE IF /\ "office" \in features
                  /\ \/ ctx.input_type = "Office"
                     \/ extension \in {<<"x", "l", "s", "x">>, <<"d", "o", "c", "x">>,
                                       <<"p", "p", "t", "x">>}
          THEN \E ok \in BOOLEAN : Decoded("render_office", ctx.page_indices, ok)
          ELSE IF /\ "html" \in features
                  /\ \/ is_html(ctx, extension, data)
                     \/ StartsWith(data, <<"<", "h", "t", "m", "l">>)
                     \/ StartsWith(data, <<"<", "!", "D", "O", "C", "T", "Y", "P", "E",
                                           " ", "h", "t", "m", "l">>)
          THEN \E ok \in BOOLEAN : Decoded("render_html_chrome", None, ok)
          ELSE LoadDataFallback
    /\ UNCHANGED <<features, fs, ctx>>

(***************************************************************************)
(* calculate_dimensions                                                    *)
(*                                                                         *)
(* The f64 values the function computes are non-negative: zero, a finite   *)
(* value, +infinity or NaN.  A finite value is its significand m, a        *)
(* sequence of MantissaBits bits with m[1] = 1, and the exponent e of the  *)
(* leading bit: the value is the sum of m[i] * 2^(e + 1 - i).  Quotients   *)
(* and products are rounded to nearest, ties to even, as the hardware      *)
(* does.  The integers converted to f64 are u32 values, which f64 holds    *)
(* exactly; the arithmetic below is written for dimensions under 2^15, so  *)
(* that every intermediate product fits the model checker's integers.      *)
(***************************************************************************)
MantissaBits == 53

Zero == [k |-> "zero"]
Fin(m, e) == [k |-> "fin", m |-> m, e |-> e]
Inf == [k |-> "inf"]
NaN == [k |-> "nan"]

RECURSIVE Exponent(_, _)
\* floor(log2(a / b)), a and b positive.
Exponent(a, b) ==
    IF a >= 2 * b THEN Exponent(a, 2 * b) + 1
    ELSE IF a < b THEN Exponent(2 * a, b) - 1
    ELSE 0

RECURSIVE Pow2Mod(_, _)
\* 2^i mod d, by squaring.
Pow2Mod(i, d) ==
    IF i = 0 THEN 1 % d
    ELSE LET half == Pow2Mod(i \div 2, d) IN
         (half * half * (IF i % 2 = 1 THEN 2 ELSE 1)) % d

\* The first n bits of the binary expansion of r / d, 0 <= r < d: bit i is
\* set when twice the remainder of r * 2^(i-1) reaches d.
DivBits(r, d, n) ==
    [i \in 1..n |-> IF 2 * ((r * Pow2Mod(i - 1, d)) % d) >= d THEN 1 ELSE 0]

\* The remainder left after those n bits.
DivRem(r, d, n) == (r * Pow2Mod(n, d)) % d

\* The n low bits of a non-negative integer, most significant first.
Bits(v, n) == [i \in 1..n |-> (v \div 2^(n - i)) % 2]

\* The number of bits of a non-negative integer.
BitLength(v) == IF v = 0 THEN 0 ELSE 1 + (CHOOSE k \in 0..30 : 2^k <= v /\ v \div 2 < 2^k)

RECURSIVE BitsValue(_)
BitsValue(bits) ==
    IF bits = <<>> THEN 0
    ELSE IF Len(bits) = 1 THEN bits[1]
    ELSE LET half == Len(bits) \div 2 IN
         BitsValue(SubSeq(bits, 1, half)) * 2^(Len(bits) - half)
             + BitsValue(Drop(bits, half))

\* The significand is multiplied in pieces of this many bits.
LimbBits == 14

RECURSIVE MulBits(_, _, _)
\* The bits of m * a + carry * 2^Len(m), m a bit sequence, a an integer.
MulBits(m, a, carry) ==
    IF Len(m) = 0 THEN Bits(carry, BitLength(carry))
    ELSE LET n == Min(Len(m), LimbBits)
             t == BitsValue(Drop(m, Len(m) - n)) * a + carry
         IN MulBits(SubSeq(m, 1, Len(m) - n), a, t \div 2^n) \o Bits(t % 2^n, n)

\* A significand plus one unit in its last place.
Increment(m, e) ==
    IF \A i \in 1..Len(m) : m[i] = 1
    THEN Fin([i \in 1..Len(m) |-> IF i = 1 THEN 1 ELSE 0], e + 1)
    ELSE LET z == CHOOSE i \in 1..Len(m) :
                      m[i] = 0 /\ \A j \in (i + 1)..Len(m) : m[j] = 1
         IN Fin([i \in 1..Len(m) |-> IF i < z THEN m[i] ELSE IF i = z THEN 1 ELSE 0], e)

\* Round to nearest, ties to even: bits is the exact result's expansion from
\* its leading 1 (exponent e), rest tells whether more non-zero bits follow.
RoundNearestEven(bits, e, rest) ==
    LET kept == SubSeq(bits, 1, MantissaBits)
        guard == Len(bits) > MantissaBits /\ bits[MantissaBits + 1] = 1
        sticky == rest \/ \E i \in (MantissaBits + 2)..Len(bits) : bits[i] = 1
    IN IF guard /\ (sticky \/ kept[MantissaBits] = 1) THEN Increment(kept, e)
       ELSE Fin(kept, e)

\* a / b in f64, a and b non-negative integers.
FDiv(a, b) ==
    IF b = 0 THEN (IF a > 0 THEN Inf ELSE NaN)
    ELSE IF a = 0 THEN Zero
    ELSE LET e == Exponent(a, b)
             num == IF e < 0 THEN a * 2^(0 - e) ELSE a
             den == IF e > 0 THEN b * 2^e ELSE b
         IN RoundNearestEven(<<1>> \o DivBits(num - den, den, MantissaBits),
                             e, DivRem(num - den, den, MantissaBits) # 0)

\* a * f in f64, a a non-negative integer.
FMul(a, f) ==
    IF f.k = "nan" THEN NaN
    ELSE IF f.k = "inf" THEN (IF a > 0 THEN Inf ELSE NaN)
    ELSE IF f.k = "zero" \/ a = 0 THEN Zero
    ELSE LET product == MulBits(f.m, a, 0) IN
         RoundNearestEven(product, f.e + Len(product) - MantissaBits, FALSE)

\* f > g in f64: false when either is NaN.
FGt(f, g) ==
    IF f.k = "nan" \/ g.k = "nan" THEN FALSE
    ELSE IF f.k = "inf" THEN g.k # "inf"
    ELSE IF g.k = "inf" \/ f.k = "zero" THEN FALSE
    ELSE IF g.k = "zero" THEN TRUE
    ELSE \/ f.e > g.e
         \/ /\ f.e = g.e
            /\ \E i \in 1..MantissaBits :
                   /\ f.m[i] > g.m[i]
                   /\ \A j \in 1..(i - 1) : f.m[j] = g.m[j]

\* u32::MAX, in two's complement reading.
U32Max == 0 - 1

\* f.round() as u32: half away from zero, then the saturating cast (NaN to
\* 0, anything above u32::MAX to u32::MAX).
RoundAsU32(f) ==
    IF f.k = "nan" \/ f.k = "zero" THEN 0
    ELSE IF f.k = "inf" THEN U32Max
    ELSE IF f.e < 0 - 1 THEN 0
    ELSE IF f.e = 0 - 1 THEN 1
    ELSE IF f.e > 31 THEN U32Max
    ELSE LET half == IF f.e + 2 <= MantissaBits THEN f.m[f.e + 2] ELSE 0
             top == IF f.e = 31 THEN 1 ELSE 0
             low == BitsValue(SubSeq(f.m, 1 + top, f.e + 1))
         IN IF half = 1 /\ low = 2147483647
            THEN (IF top = 1 THEN U32Max ELSE (0 - 2147483647) - 1)
            ELSE IF top = 1 THEN ((low - 2147483647) - 1) + half
            ELSE low + half

Unwrap0(opt) == IF opt.some THEN opt.v ELSE 0

\* A mutant of AutoResize: no-resize is not looked at.
AutoResizeAlways(img_dims, fullwidth, fullheight, noresize, term) ==
    /\ ~fullwidth
    /\ ~fullheight
    /\ \/ (img_dims[1] > term[1] /\ term[1] > 0)
       \/ (img_dims[2] > term[2] /\ term[2] > 0)

\* The automatic resize: none of no-resize, fullwidth, fullheight is set and
\* the image is larger than a terminal of positive size.
AutoResize(img_dims, fullwidth, fullheight, noresize, term) ==
    /\ ~noresize
    /\ ~fullwidth
    /\ ~fullheight
    /\ \/ (img_dims[1] > term[1] /\ term[1] > 0)
       \/ (img_dims[2] > term[2] /\ term[2] > 0)

calculate_dimensions(img_dims, conf_size, fullwidth, fullheight, resize, noresize, term) ==
    LET orig_w == img_dims[1]
        orig_h == img_dims[2]
        width == Unwrap0(conf_size[1])
        height == Unwrap0(conf_size[2])
        use_resize ==
            resize \/ AutoResize(img_dims, fullwidth, fullheight, noresize, term)
        wider == FGt(FDiv(orig_w, orig_h), FDiv(orig_h, orig_w))
        use_fullwidth == fullwidth \/ (use_resize /\ wider)
        use_fullheight == fullheight \/ (use_resize /\ ~wider)
    IN IF width > 0 /\ height = 0
       THEN <<width, RoundAsU32(FMul(orig_h, FDiv(width, orig_w)))>>
       ELSE IF height > 0 /\ width = 0
       THEN <<RoundAsU32(FMul(orig_w, FDiv(height, orig_h))), height>>
       ELSE IF use_fullwidth
       THEN <<term[1], RoundAsU32(FMul(orig_h, FDiv(term[1], orig_w)))>>
       ELSE IF use_fullheight
       THEN <<RoundAsU32(FMul(orig_w, FDiv(term[2], orig_h))), term[2]>>
       ELSE <<orig_w, orig_h>>

(***************************************************************************)
(* render_image                                                            *)
(*                                                                         *)
(* out: the bytes written to the writer, in order.  In terminal mode they  *)
(* are characters; in file mode the PNG's bytes.  Every write call may     *)
(* fail (the writer is the environment's), which ends render_image with    *)
(* Err after the writes that succeeded.                                    *)
(***************************************************************************)
CHUNK_SIZE == 4096

ESC == "ESC"

RECURSIVE Decimal(_)
\* format!("{}", n) of an unsigned integer.
Decimal(n) ==
    IF n < 10 THEN <<DecDigits[n + 1]>>
    ELSE Decimal(n \div 10) \o <<DecDigits[(n % 10) + 1]>>

B64Alphabet ==
    <<"A", "B", "C", "D", "E", "F", "G", "H", "I", "J", "K", "L", "M", "N", "O", "P",
      "Q", "R", "S", "T", "U", "V", "W", "X", "Y", "Z", "a", "b", "c", "d", "e", "f",
      "g", "h", "i", "j", "k", "l", "m", "n", "o", "p", "q", "r", "s", "t", "u", "v",
      "w", "x", "y", "z", "0", "1", "2", "3", "4", "5", "6", "7", "8", "9", "+", "/">>

\* One character of the padded base64 text of bytes: j counts from 1.
B64Char(bytes, j) ==
    LET n == Len(bytes)
        g == 3 * ((j - 1) \div 4)
        k == (j - 1) % 4
        b1 == bytes[g + 1]
        b2 == IF g + 2 <= n THEN bytes[g + 2] ELSE 0
        b3 == IF g + 3 <= n THEN bytes[g + 3] ELSE 0
    IN CASE k = 0 -> B64Alphabet[(b1 \div 4) + 1]
         [] k = 1 -> B64Alphabet[(b1 % 4) * 16 + (b2 \div 16) + 1]
         [] k = 2 -> IF g + 2 > n THEN "="
                     ELSE B64Alphabet[(b2 % 16) * 4 + (b3 \div 64) + 1]
         [] k = 3 -> IF g + 3 > n THEN "=" ELSE B64Alphabet[(b3 % 64) + 1]

\* general_purpose::STANDARD.encode
Base64Encode(bytes) ==
    [j \in 1..(4 * ((Len(bytes) + 2) \div 3)) |-> B64Char(bytes, j)]

\* DynamicImage::to_rgba8().into_raw(): the pixels' bytes, row-major.
RawBytes(image) ==
    [i \in 1..(4 * Len(image.px)) |-> image.px[((i - 1) \div 4) + 1][((i - 1) % 4) + 1]]

\* Four big-endian bytes of n.
U32BE(n) == <<(n \div 16777216) % 256, (n \div 65536) % 256, (n \div 256) % 256, n % 256>>

\* PngEncoder::write_image is the image crate's.  It refuses an image with
\* a zero dimension; otherwise its output is modelled as the PNG signature,
\* the dimensions, the pixel bytes and an end mark.
PngEncode(image) ==
    IF image.w = 0 \/ image.h = 0 THEN Err
    ELSE Ok(<<137, 80, 78, 71, 13, 10, 26, 10>> \o U32BE(image.w) \o U32BE(image.h)
            \o RawBytes(image) \o <<73, 69, 78, 68>>)

\* ZlibEncoder is flate2's.  Its output is modelled as a zlib stream that
\* holds the bytes in one stored block (the lengths checked here are below
\* 65536), with the checksum bytes left 0.
ZlibCompress(bytes) ==
    LET n == Len(bytes) IN
    <<120, 156, 1, n % 256, n \div 256, 255 - (n % 256), 255 - (n \div 256)>>
    \o bytes \o <<0, 0, 0, 0>>

\* DynamicImage::resize_exact is the image crate's: an image of exactly
\* w x h, its pixels sampled here from the nearest source pixel.
ResizeExact(image, w, h) ==
    Image(w, h,
          [i \in 1..(w * h) |->
              LET x == (i - 1) % w
                  y == (i - 1) \div w
              IN image.px[((y * image.h) \div h) * image.w + ((x * image.w) \div w) + 1]])

\* The header of the first frame.
PngHeader == <<"a", "=", "T", ",", "f", "=", "1", "0", "0", ",">>
RgbaHeader(w, h) ==
    <<"a", "=", "T", ",", "f", "=", "3", "2", ",", "s", "=">> \o Decimal(w)
    \o <<",", "v", "=">> \o Decimal(h) \o <<",", "o", "=", "z", ",">>

RECURSIVE Concat(_)
Concat(ss) == IF ss = <<>> THEN <<>> ELSE ss[1] \o Concat(Drop(ss, 1))

RenderDone(res) ==
    /\ rpc' = "done"
    /\ render_res' = res

\* Lines 186-252: the final image, the payload, the header and the base64
\* text; in file mode the PNG is written and render_image returns.
RenderPrepare ==
    /\ rpc = "start"
    /\ \E dims \in {calculate_dimensions(<<img.w, img.h>>, <<conf.width, conf.height>>,
                        conf.fullwidth, conf.fullheight, conf.resize, conf.noresize,
                        term_size)} :
       LET w == dims[1]
           h == dims[2]
           color == parse_color(conf.color)
       IN IF w < 0 \/ h < 0
          THEN \* resize_exact to u32::MAX pixels: the allocation aborts
               /\ RenderDone([tag |-> "Panic"])
               /\ UNCHANGED <<final_img, header, encoded, pos, is_first, out>>
          ELSE \E resized \in {IF w # 0 /\ h # 0 /\ (w # img.w \/ h # img.h)
                               THEN ResizeExact(img, w, h) ELSE img} :
          IF conf.background /\ color.tag = "Err"
          THEN /\ RenderDone(ErrMsg("Invalid color format"))
               /\ final_img' = resized
               /\ UNCHANGED <<header, encoded, pos, is_first, out>>
          ELSE \E final \in {IF conf.background THEN add_background(resized, color.val)
                             ELSE resized} :
          LET png == PngEncode(final)
              raw_bytes == RawBytes(final)
              payload == IF conf.mode = "Png" THEN png.val
                         ELSE IF conf.mode = "Zlib" THEN ZlibCompress(raw_bytes)
                         ELSE raw_bytes
          IN
          IF conf.output.some \/ conf.mode = "Png"
          THEN IF png.tag = "Err"
               THEN /\ RenderDone(ErrMsg("png encoder"))
                    /\ final_img' = final
                    /\ UNCHANGED <<header, encoded, pos, is_first, out>>
               ELSE IF conf.output.some
               THEN /\ final_img' = final
                    /\ \E written \in BOOLEAN :
                          IF written
                          THEN out' = out \o png.val /\ RenderDone(Ok("written"))
                          ELSE out' = out /\ RenderDone(ErrMsg("write failed"))
                    /\ UNCHANGED <<header, encoded, pos, is_first>>
               ELSE /\ final_img' = final
                    /\ header' = PngHeader
                    /\ encoded' = Base64Encode(payload)
                    /\ pos' = 0
                    /\ is_first' = TRUE
                    /\ rpc' = "loop"
                    /\ UNCHANGED <<out, render_res>>
          ELSE /\ final_img' = final
               /\ header' = RgbaHeader(final.w, final.h)
               /\ encoded' = Base64Encode(payload)
               /\ pos' = 0
               /\ is_first' = TRUE
               /\ rpc' = "loop"
               /\ UNCHANGED <<out, render_res>>
    /\ UNCHANGED <<conf, img, term_size>>

\* A mutant: the slice takes one character more than the chunk size.
ChunkEndLong(p, total_len) == Min(p + CHUNK_SIZE + 1, total_len)

\* Line 256: where the chunk that starts after p ends.
ChunkEnd(p, total_len) == Min(p + CHUNK_SIZE, total_len)

\* A mutant: the comparison includes equality, so the last frame says 1.
MoreFlagLe(end, total_len) == IF end <= total_len THEN 1 ELSE 0

\* Line 258: the continuation flag of the chunk that ends at end.
MoreFlag(end, total_len) == IF end < total_len THEN 1 ELSE 0

\* The writes of one pass of the while loop, in order.
FrameWrites(chunk, more) ==
    <<<<ESC, "_", "G">>>>
    \o (IF is_first THEN <<header>> ELSE <<>>)
    \o <<<<"m", "=", Decimal(more)[1], ";">>, chunk, <<ESC, "\\">>>>

\* One pass of the while loop (lines 255-270): one frame, or the writes
\* before the one that failed.
RenderFrame ==
    /\ rpc = "loop"
    /\ pos < Len(encoded)
    /\ LET total_len == Len(encoded)
           end == ChunkEnd(pos, total_len)
           chunk == SubSeq(encoded, pos + 1, end)
           more == MoreFlag(end, total_len)
           writes == FrameWrites(chunk, more)
       IN \E k \in 0..Len(writes) :
             /\ out' = out \o Concat(SubSeq(writes, 1, k))
             /\ IF k = Len(writes)
                THEN /\ pos' = end
                     /\ is_first' = FALSE
                     /\ UNCHANGED <<rpc, render_res>>
                ELSE /\ RenderDone(ErrMsg("write failed"))
                     /\ UNCHANGED <<pos, is_first>>
    /\ UNCHANGED <<conf, img, term_size, final_img, header, encoded>>

\* Lines 271-272: the loop has ended; the newline, then Ok.
RenderFinish ==
    /\ rpc = "loop"
    /\ pos >= Len(encoded)
    /\ \E written \in BOOLEAN :
          IF written
          THEN out' = out \o <<"\n">> /\ RenderDone(Ok("sent"))
          ELSE out' = out /\ RenderDone(ErrMsg("write failed"))
    /\ UNCHANGED <<conf, img, term_size, final_img, header, encoded, pos, is_first>>

(***************************************************************************)
(* The states before any call                                              *)
(***************************************************************************)
DefaultConf ==
    [width |-> None, height |-> None, fullwidth |-> FALSE, fullheight |-> FALSE,
     resize |-> FALSE, noresize |-> FALSE, background |-> FALSE,
     color |-> <<"F", "F", "F", "F", "F", "F">>, mode |-> "Png", output |-> None,
     files |-> <<>>, overwrite |-> FALSE, input |-> "Auto", pages |-> None,
     printname |-> FALSE, tty |-> FALSE, clear |-> FALSE]

DefaultCtx ==
    [input_type |-> "Auto", conf_w |-> None, conf_h |-> None,
     term_width |-> 800, term_height |-> 400, page_indices |-> None]

LibIdle == fn = "none" /\ args = <<>> /\ ret = NoRet

LoadIdle ==
    /\ features = {}
    /\ fs = <<>>
    /\ ctx = DefaultCtx
    /\ frame = DoneFrame
    /\ hops = 0
    /\ decoder = <<>>
    /\ load_res = NoRet

RenderIdle ==
    /\ conf = DefaultConf
    /\ img = Image(0, 0, <<>>)
    /\ term_size = <<800, 400>>
    /\ rpc = "idle"
    /\ final_img = Image(0, 0, <<>>)
    /\ header = <<>>
    /\ encoded = <<>>
    /\ pos = 0
    /\ is_first = TRUE
    /\ out = <<>>
    /\ render_res = NoRet

\* main has not been entered: no piped input, no destination file, no temporary file.
RunIdle ==
    /\ stdin = [available |-> FALSE, data |-> <<>>]
    /\ dest = [exists |-> FALSE, content |-> <<>>]
    /\ temp = FALSE
    /\ mpc = "idle"
    /\ exit_code = 0
    /\ idx = 0
    /\ attempted = <<>>
    /\ err_out = <<>>

\* A library function is called on its arguments and returns.
Call(name, result) ==
    /\ fn = name
    /\ ret = NoRet
    /\ ret' = result
    /\ UNCHANGED <<fn, args, loadVars, renderVars, runVars>>

(***************************************************************************)
(* parse_color on bounded texts                                            *)
(***************************************************************************)
MaxColorLen == 7

ColorAlphabet == {"#", "F", "Z", "+"}

ColorVectors ==
    {<<"F", "F", "F", "F", "F", "F">>, <<"#", "F", "F", "F", "F", "F", "F">>,
     <<"F", "F", "F">>, <<"Z", "Z", "Z", "Z", "Z", "Z">>,
     <<"#", "#", "F", "F", "F", "F", "F", "F">>,
     <<"1", "2", "3", "4", "5", "6">>, <<"#", "a", "b", "c", "d", "e", "f">>,
     <<"#", "0", "0", "f", "f", "7", "F">>, <<"-", "F", "-", "F", "-", "F">>,
     <<"F", "F", "F", "F", "F", "F", " ">>, <<"0", "x", "F", "F", "F", "F">>}

ColorInputs == Texts(ColorAlphabet, MaxColorLen) \cup ColorVectors

InitColor ==
    /\ fn = "parse_color"
    /\ args \in ColorInputs
    /\ ret = NoRet
    /\ LoadIdle
    /\ RenderIdle
    /\ RunIdle

CallParseColor == Call("parse_color", parse_color(args))

SpecColor == InitColor /\ [][CallParseColor]_vars

IsHexDigit(c) == ToDigit(c, 16) >= 0

\* An optional single leading '#', then exactly six hexadecimal digits.
IsColorSyntax(s) ==
    LET body == IF s # <<>> /\ s[1] = "#" THEN Drop(s, 1) ELSE s IN
    Len(body) = 6 /\ \A i \in 1..6 : IsHexDigit(body[i])

ColorValue(s) ==
    LET body == IF s[1] = "#" THEN Drop(s, 1) ELSE s IN
    <<16 * ToDigit(body[1], 16) + ToDigit(body[2], 16),
      16 * ToDigit(body[3], 16) + ToDigit(body[4], 16),
      16 * ToDigit(body[5], 16) + ToDigit(body[6], 16), 255>>

\* C8: parse_color succeeds exactly on an optional single '#' followed by
\* exactly six hexadecimal digits, and then returns their three byte values
\* with alpha 255; every other text is an error.
C8_ParseColorExactlyHex ==
    (fn = "parse_color" /\ ret # NoRet) =>
        /\ (ret.tag = "Ok") <=> IsColorSyntax(args)
        /\ ret.tag = "Ok" /\ IsColorSyntax(args) => ret.val = ColorValue(args)

(***************************************************************************)
(* parse_pages on bounded texts                                            *)
(***************************************************************************)
MaxPagesLen == 5

PagesAlphabet == {"0", "1", "2", "3", ",", "-", " "}

PagesVectors ==
    {<<"1", "-", "3", ",", "3", "4">>, <<"3", "-", "2">>, <<"2", "-", "2">>,
     <<"1", "-", "3", "-", "5">>, <<"6", "5", "5", "3", "5">>,
     <<"6", "5", "5", "3", "6">>, <<"3", ",", "1", "-", "2", ",", "2">>,
     <<" ", ",", " ", ",">>, <<"7", ",", "x">>, <<"1", "\t", "-", "2", "\n">>}

PagesInputs == Texts(PagesAlphabet, MaxPagesLen) \cup PagesVectors

InitPages ==
    /\ fn = "parse_pages"
    /\ args \in PagesInputs
    /\ ret = NoRet
    /\ LoadIdle
    /\ RenderIdle
    /\ RunIdle

CallParsePages == Call("parse_pages", parse_pages(args))

SpecPages == InitPages /\ [][CallParsePages]_vars

\* The page-range syntax: INT is one or more decimal digits.
IsInt(t) == t # <<>> /\ \A i \in 1..Len(t) : ToDigit(t[i], 10) >= 0

\* The value of an INT (the texts checked here have few digits).
IntValue(t) == AccDigits(t, 10, 99999999, 0)

\* The non-blank tokens of a page-range text, whitespace around them removed.
Tokens(s) ==
    LET parts == Split(s, ",") IN
    {Trim(parts[i]) : i \in {j \in 1..Len(parts) : Trim(parts[j]) # <<>>}}

IsSingleToken(t) == IsInt(t)

\* INT-INT: exactly one dash between two INTs (blanks beside the dash allowed).
IsRangeToken(t) ==
    LET parts == Split(t, "-") IN
    Len(parts) = 2 /\ IsInt(Trim(parts[1])) /\ IsInt(Trim(parts[2]))

RangeStart(t) == IntValue(Trim(Split(t, "-")[1]))
RangeEnd(t) == IntValue(Trim(Split(t, "-")[2]))

\* A valid token: INT >= 1, or INT-INT with start >= 1 and end > start.
IsValidToken(t) ==
    \/ IsSingleToken(t) /\ IntValue(t) >= 1
    \/ IsRangeToken(t) /\ RangeStart(t) >= 1 /\ RangeEnd(t) > RangeStart(t)

\* The 1-indexed pages a token names.
PagesOf(t) ==
    IF IsSingleToken(t) THEN {IntValue(t)}
    ELSE IF IsRangeToken(t) THEN RangeStart(t)..RangeEnd(t)
    ELSE {}

PagesNamed(s) == UNION {PagesOf(t) : t \in Tokens(s)}

IsStrictlyAscending(v) == \A i \in 1..(Len(v) - 1) : v[i] < v[i + 1]

Elements(v) == {v[i] : i \in 1..Len(v)}

PagesReturned == fn = "parse_pages" /\ ret # NoRet

\* C6: for every text parse_pages accepts, the result is unset when the
\* text has no non-blank token, and otherwise the strictly ascending,
\* duplicate-free, non-empty sequence of exactly the indices p-1 of the
\* pages p that its single-page and start-end range tokens name.
C6_PagesAreTheNamedOnes ==
    (PagesReturned /\ ret.tag = "Ok") =>
        IF Tokens(args) = {} THEN ret.val = None
        ELSE /\ ret.val.some
             /\ ret.val.v # <<>>
             /\ IsStrictlyAscending(ret.val.v)
             /\ Elements(ret.val.v) = {p - 1 : p \in PagesNamed(args)}

\* C7: parse_pages returns a selection or unset only when every non-blank
\* token is INT or INT-INT, names no page below 1 and, as a range, ends
\* strictly after its start; any other token makes it return an error.
C7_InvalidTokenIsError ==
    (PagesReturned /\ ret.tag = "Ok") => \A t \in Tokens(args) : IsValidToken(t)

(***************************************************************************)
(* add_background on bounded images                                        *)
(***************************************************************************)
MaxPixels == 2

White == <<255, 255, 255, 255>>
Black == <<0, 0, 0, 255>>

PixelSamples ==
    {<<0, 0, 0, 0>>, <<0, 0, 0, 255>>, <<255, 0, 0, 128>>, <<10, 200, 77, 1>>,
     <<10, 200, 77, 254>>, <<255, 255, 255, 127>>, <<1, 2, 3, 255>>, <<9, 9, 9, 0>>}

\* One colour at every alpha.
AlphaSweep == {<<200, 100, 0, a>> : a \in 0..255}

\* Opaque colours, as parse_color returns them, and one that is not.
BackgroundColors == {White, Black, <<18, 52, 86, 255>>, <<255, 255, 255, 128>>}

BackgroundImages ==
    {Image(d[1], d[2], px) :
        d \in {e \in (0..MaxPixels) \X (0..MaxPixels) : e[1] * e[2] <= MaxPixels},
        px \in UNION {[1..n -> PixelSamples] : n \in 0..MaxPixels}}
    \cup {Image(1, 1, <<p>>) : p \in AlphaSweep}

InitBackground ==
    /\ fn = "add_background"
    /\ args \in {[image |-> i, color |-> c] :
                    i \in {j \in BackgroundImages : Len(j.px) = j.w * j.h},
                    c \in BackgroundColors}
    /\ ret = NoRet
    /\ LoadIdle
    /\ RenderIdle
    /\ RunIdle

CallAddBackground == Call("add_background", add_background(args.image, args.color))

SpecBackground == InitBackground /\ [][CallAddBackground]_vars

BackgroundReturned == fn = "add_background" /\ ret # NoRet

\* The claimed output pixel for a source pixel over an opaque colour.
CompositedPixel(src, color) ==
    IF src[4] = 255 THEN src
    ELSE IF src[4] = 0 THEN color
    ELSE <<(src[1] * src[4] + color[1] * (255 - src[4])) \div 255,
           (src[2] * src[4] + color[2] * (255 - src[4])) \div 255,
           (src[3] * src[4] + color[3] * (255 - src[4])) \div 255, 255>>

\* C5: add_background returns an image of the same dimensions whose every
\* pixel, over an opaque colour, is the source pixel when its alpha is 255,
\* the colour when its alpha is 0, and otherwise the truncating blend
\* (src*a + bg*(255-a)) / 255 per channel; its alpha is 255 in all three
\* cases, and (255,0,0,128) over white gives (255,127,127,255).
C5_CompositeOverOpaque ==
    (BackgroundReturned /\ args.color[4] = 255) =>
        /\ ret.w = args.image.w
        /\ ret.h = args.image.h
        /\ Len(ret.px) = Len(args.image.px)
        /\ \A i \in 1..Len(ret.px) :
              /\ ret.px[i] = CompositedPixel(args.image.px[i], args.color)
              /\ ret.px[i][4] = 255
              /\ (args.image.px[i] = <<255, 0, 0, 128>> /\ args.color = White)
                    => ret.px[i] = <<255, 127, 127, 255>>

\* A partly transparent pixel has been blended over white.
C5_Witness ==
    /\ BackgroundReturned
    /\ args.color = White
    /\ args.image.px = <<<<255, 0, 0, 128>>, <<0, 0, 0, 0>>>>
    /\ ret.px = <<<<255, 127, 127, 255>>, White>>

(***************************************************************************)
(* get_term_size on the answers of the terminal query                      *)
(***************************************************************************)
TermQueries ==
    {[ok |-> FALSE]} \cup
    [ok : {TRUE}, rows : {0, 1, 2, 3, 24, 50}, columns : {0, 1, 80},
     width : {0, 1, 640}, height : {0, 1, 480}]

InitTermSize ==
    /\ fn = "get_term_size"
    /\ args \in [query : TermQueries, build : {"debug", "release"}]
    /\ ret = NoRet
    /\ LoadIdle
    /\ RenderIdle
    /\ RunIdle

CallGetTermSize == Call("get_term_size", get_term_size(args.query, args.build))

SpecTermSize == InitTermSize /\ [][CallGetTermSize]_vars

\* C10: get_term_size never fails: whatever the terminal query answers, it
\* returns a geometry, with no unsigned underflow in rows - 2 and no
\* division by zero.
C10_TermSizeNeverFaults ==
    (fn = "get_term_size" /\ ret # NoRet) => (ret.panic = "" /\ ~ret.wrapped)

(***************************************************************************)
(* The dispatcher on small file systems                                    *)
(***************************************************************************)
PathA == <<"a">>
PathB == <<"b">>

LoadPaths == {PathA, PathB}

\* Contents: the path of a, the path of b between blanks, an image, a PDF,
\* an XML prologue, plain text that names no file, bytes that are no text.
Contents ==
    {PathA, <<" ", "b", "\n">>, ImageMagic \o <<"x">>, <<"%", "P", "D", "F", "-">>,
     <<"<", "?", "x", "m", "l", " ">>, <<"h", "i">>, <<"0xFF", "a">>}

FileSystems == UNION {[P -> Contents] : P \in SUBSET LoadPaths}

FeatureSets == {{}, {"pdf"}, {"svg"}, {"svg", "pdf", "html", "office"}}

InputTypes(f) ==
    {"Auto", "Image", "Text"}
    \cup (IF "svg" \in f THEN {"Svg"} ELSE {})
    \cup (IF "pdf" \in f THEN {"Pdf"} ELSE {})
    \cup (IF "html" \in f THEN {"Html"} ELSE {})
    \cup (IF "office" \in f THEN {"Office"} ELSE {})

StartFrames ==
    {FileFrame(p) : p \in LoadPaths \cup {<<"n", "o", ".", "p", "n", "g">>}}
    \cup {DataFrame(d, <<>>) : d \in Contents}

InitLoad ==
    /\ LibIdle
    /\ RenderIdle
    /\ RunIdle
    /\ features \in FeatureSets
    /\ fs \in FileSystems
    /\ ctx \in {[DefaultCtx EXCEPT !.input_type = t, !.page_indices = p] :
                   t \in InputTypes(features), p \in {None, Some(<<0, 2>>)}}
    /\ frame \in StartFrames
    /\ hops = 0
    /\ decoder = <<>>
    /\ load_res = NoRet

NextLoad ==
    \/ LoadFile /\ UNCHANGED <<libVars, renderVars, runVars>>
    \/ LoadData /\ UNCHANGED <<libVars, renderVars, runVars>>

SpecLoad == InitLoad /\ [][NextLoad]_vars

\* C9: the dispatcher follows the path found in undecodable input at most
\* once: load_data hands a file back to load_file no more than one time in
\* one dispatch.
C9_AtMostOneIndirection == hops <= 1

(***************************************************************************)
(* render_image on small and chunk-sized images                            *)
(***************************************************************************)
MaxSeed == 0

\* A w x h image whose pixels differ from one another and take the alphas
\* 255, 0 and 128 in turn.
TestImage(w, h, seed) ==
    Image(w, h,
          [i \in 1..(w * h) |->
              <<(7 * i + seed) % 256, (13 * i) % 256, (i + 3 * seed) % 256,
                CASE i % 3 = 0 -> 255 [] i % 3 = 1 -> 0 [] OTHER -> 128>>])

\* Sizes whose RGBA bytes give no base64 text, or less than one chunk.
SmallDims == {<<0, 0>>, <<0, 3>>, <<1, 1>>, <<3, 2>>}

\* Sizes whose RGBA bytes give exactly one chunk of base64 text (32 x 24:
\* 3072 bytes, 4096 characters), exactly two (32 x 48), and a little more
\* than one (22 x 35) and than two (29 x 53).
ChunkDims == {<<32, 24>>, <<32, 48>>, <<22, 35>>, <<29, 53>>}

\* The size options; clap lets at most one of them be given.
SizeRequests ==
    {DefaultConf,
     [DefaultConf EXCEPT !.width = Some(5)],
     [DefaultConf EXCEPT !.height = Some(3)],
     [DefaultConf EXCEPT !.fullwidth = TRUE],
     [DefaultConf EXCEPT !.fullheight = TRUE],
     [DefaultConf EXCEPT !.resize = TRUE],
     [DefaultConf EXCEPT !.noresize = TRUE]}

Backgrounds ==
    {[on |-> FALSE, color |-> DefaultConf.color],
     [on |-> TRUE, color |-> DefaultConf.color],
     [on |-> TRUE, color |-> <<"F", "F", "F">>]}

\* --output conflicts with --mode, which then keeps its default.
Outputs ==
    {[mode |-> "Png", output |-> None], [mode |-> "Zlib", output |-> None],
     [mode |-> "Raw", output |-> None],
     [mode |-> "Png", output |-> Some(<<"o", ".", "p", "n", "g">>)]}

ConfsOver(requests, backgrounds) ==
    {[c EXCEPT !.background = b.on, !.color = b.color, !.mode = o.mode,
               !.output = o.output] :
        c \in requests, b \in backgrounds, o \in Outputs}

RenderInputs ==
    [conf : ConfsOver(SizeRequests, Backgrounds),
     img : {TestImage(d[1], d[2], z) : d \in SmallDims, z \in 0..MaxSeed},
     term_size : {<<40, 30>>, <<2, 2>>}]
    \cup
    [conf : ConfsOver({DefaultConf, [DefaultConf EXCEPT !.noresize = TRUE]},
                      {b \in Backgrounds : b.color = DefaultConf.color}),
     img : {TestImage(d[1], d[2], z) : d \in ChunkDims, z \in 0..MaxSeed},
     term_size : {<<64, 64>>}]

InitRender ==
    /\ LibIdle
    /\ LoadIdle
    /\ RunIdle
    /\ \E i \in RenderInputs :
          /\ conf = i.conf
          /\ img = i.img
          /\ term_size = i.term_size
    /\ rpc = "start"
    /\ final_img = Image(0, 0, <<>>)
    /\ header = <<>>
    /\ encoded = <<>>
    /\ pos = 0
    /\ is_first = TRUE
    /\ out = <<>>
    /\ render_res = NoRet

NextRender ==
    \/ RenderPrepare /\ UNCHANGED <<libVars, loadVars, runVars>>
    \/ RenderFrame /\ UNCHANGED <<libVars, loadVars, runVars>>
    \/ RenderFinish /\ UNCHANGED <<libVars, loadVars, runVars>>

SpecRender == InitRender /\ [][NextRender]_vars

(***************************************************************************)
(* The frames of a transmission, read back from the bytes written:         *)
(* ESC _ G <control> ; <payload> ESC \ with the flag m=<0|1> last in the   *)
(* control data.  The base64 alphabet holds neither ESC nor ';'.           *)
(***************************************************************************)
TerminalMode == rpc \in {"loop", "done"} /\ ~conf.output.some

Sent == TerminalMode /\ rpc = "done" /\ render_res = Ok("sent")

RECURSIVE Ascending(_)
\* The elements of a finite set of integers in ascending order.
Ascending(S) ==
    IF S = {} THEN <<>>
    ELSE LET m == CHOOSE x \in S : \A y \in S : x <= y
         IN <<m>> \o Ascending(S \ {m})

\* The frames written in full, in order: each has its opening and its
\* closing ESC.  escs: the number of ESC bytes written.
Frames ==
    LET at == Ascending({i \in 1..Len(out) : out[i] = ESC})
        Body(n) == SubSeq(out, at[2 * n - 1] + 3, at[2 * n] - 1)
    IN [n \in 1..(Len(at) \div 2) |->
           LET body == Body(n)
               semi == IndexOf(body, ";")
               control == SubSeq(body, 1, semi - 1)
           IN [control |-> control,
               payload |-> Drop(body, semi),
               \* framed as ESC _ G ... ; ... ESC \, the control data ending in m=
               wellformed |-> /\ out[at[2 * n - 1] + 1] = "_"
                              /\ out[at[2 * n - 1] + 2] = "G"
                              /\ out[at[2 * n] + 1] = "\\"
                              /\ semi > 0
                              /\ Len(control) >= 3
                              /\ SubSeq(control, Len(control) - 2, Len(control) - 1)
                                     = <<"m", "=">>,
               flag |-> control[Len(control)],
               \* the control data before the flag: the header fields, if any
               header |-> SubSeq(control, 1, Len(control) - 3),
               last |-> at[2 * n] + 1,
               escs |-> Len(at)]]

RECURSIVE Payloads(_, _)
\* The payloads of the first n frames, concatenated.
Payloads(frames, n) ==
    IF n = 0 THEN <<>> ELSE Payloads(frames, n - 1) \o frames[n].payload

CeilDiv(a, b) == (a + b - 1) \div b

\* C1: in terminal mode the frames written so far are ceil(pos/C) in
\* number, each carries at most C = 4096 payload characters, and their
\* payloads in order are the first pos characters of the base64 text; when
\* render_image returns Ok, pos is the text's length L, so the frames are
\* ceil(L/C) and their payloads, concatenated, are the base64 text exactly.
C1_FramesReassemblePayload ==
    TerminalMode =>
        LET frames == Frames
            n == Len(frames)
        IN /\ \A k \in 1..n :
                 frames[k].wellformed /\ Len(frames[k].payload) <= CHUNK_SIZE
           /\ n = CeilDiv(pos, CHUNK_SIZE)
           /\ Payloads(frames, n) = SubSeq(encoded, 1, pos)
           /\ Sent => /\ pos = Len(encoded)
                      /\ n = CeilDiv(Len(encoded), CHUNK_SIZE)
                      /\ Payloads(frames, n) = encoded

\* A transmission of exactly two full chunks has been sent.
C1_Witness ==
    /\ Sent
    /\ Len(encoded) = 2 * CHUNK_SIZE
    /\ Len(Frames) = 2
    /\ Len(Frames[2].payload) = CHUNK_SIZE

\* C2: every frame written carries the flag m; it is 1 on every frame that
\* another frame follows and 0 only on the last frame written (out is the
\* history of the writes, so nothing of a frame was written after an m=0
\* frame), and a transmission that was sent ends in a frame with m=0.
C2_OnlyLastFrameEndsTransmission ==
    TerminalMode =>
        LET frames == Frames
            n == Len(frames)
        IN /\ \A k \in 1..n :
                 /\ frames[k].wellformed
                 /\ frames[k].flag \in {"0", "1"}
                 /\ k < n => frames[k].flag = "1"
                 /\ frames[k].flag = "0" =>
                       /\ k = n
                       /\ pos = Len(encoded)
                       /\ frames[k].escs = 2 * n
           /\ (Sent /\ n > 0) => frames[n].flag = "0"

\* A transmission of three frames has been sent.
C2_Witness ==
    /\ Sent
    /\ Len(Frames) = 3
    /\ <<Frames[1].flag, Frames[2].flag, Frames[3].flag>> = <<"1", "1", "0">>

\* C3: every image rendered in terminal mode, a zero-sized one in Raw mode
\* included, has its header fields written exactly once, in the first
\* frame and in no later one, and ends with exactly one newline, written
\* after the last frame.
C3_HeaderOnceThenNewline ==
    Sent =>
        LET frames == Frames
            n == Len(frames)
        IN /\ n >= 1
           /\ StartsWith(frames[1].header, <<"a", "=", "T", ",", "f", "=">>)
           /\ frames[1].header = header
           /\ \A k \in 2..n : frames[k].header = <<>>
           /\ Cardinality({i \in 1..Len(out) : out[i] = "\n"}) = 1
           /\ out[Len(out)] = "\n"
           /\ frames[n].last = Len(out) - 1

\* The comma-separated fields of the first frame's header.
HeaderFields ==
    LET f == Split(Frames[1].header, ",") IN {f[i] : i \in 1..Len(f)}

\* C4: in terminal mode with a raw-RGBA payload (f=32) the header declares
\* the final image's width and height, and carries o=z exactly when the
\* payload went through the deflate compressor (Zlib mode), not when it is
\* the uncompressed RGBA buffer (Raw mode).
C4_CompressionFlagOnlyWhenCompressed ==
    (Sent /\ conf.mode \in {"Zlib", "Raw"} /\ Len(Frames) >= 1) =>
        LET fields == HeaderFields
        IN /\ <<"f", "=", "3", "2">> \in fields
           /\ (<<"s", "=">> \o Decimal(final_img.w)) \in fields
           /\ (<<"v", "=">> \o Decimal(final_img.h)) \in fields
           /\ (<<"o", "=", "z">> \in fields) <=> (conf.mode = "Zlib")

(***************************************************************************)
(* calculate_dimensions on bounded sizes                                   *)
(***************************************************************************)
SourceWidths == {0, 1, 6, 10, 100, 1000}
SourceHeights == {0, 1, 15, 90, 900}

\* (width, height) requests: none, a width, a height, both, an explicit 0.
DimRequests ==
    {<<None, None>>, <<Some(10), None>>, <<Some(41), None>>, <<None, Some(7)>>,
     <<Some(10), Some(7)>>, <<Some(0), None>>}

\* Terminal sizes in pixels: unknown, short and wide, the fallback size.
TermSizes == {<<0, 0>>, <<80, 10>>, <<800, 400>>}

DimArgs ==
    [img_dims : SourceWidths \X SourceHeights, conf_size : DimRequests,
     fullwidth : BOOLEAN, fullheight : BOOLEAN, resize : BOOLEAN,
     noresize : BOOLEAN, term_size : TermSizes]

InitDims ==
    /\ fn = "calculate_dimensions"
    /\ args \in DimArgs
    /\ ret = NoRet
    /\ LoadIdle
    /\ RenderIdle
    /\ RunIdle

CallCalculateDimensions ==
    Call("calculate_dimensions",
         [dims |-> calculate_dimensions(args.img_dims, args.conf_size, args.fullwidth,
                                        args.fullheight, args.resize, args.noresize,
                                        args.term_size)])

SpecDims == InitDims /\ [][CallCalculateDimensions]_vars

DimsReturned == fn = "calculate_dimensions" /\ ret # NoRet

\* C11: a dimension calculate_dimensions returns is zero only if the source
\* image's dimension in the same axis is zero.
C11_ZeroOnlyFromZeroSource ==
    DimsReturned =>
        /\ ret.dims[1] = 0 => args.img_dims[1] = 0
        /\ ret.dims[2] = 0 => args.img_dims[2] = 0

\* n / d rounded to the nearest integer, n >= 0 and d > 0.
RoundDiv(n, d) == (2 * n + d) \div (2 * d)

\* Only an explicit width is requested.
WidthOnly == args.conf_size[1].some /\ args.conf_size[1].v > 0 /\ ~args.conf_size[2].some

\* C15: when only an explicit width w > 0 is requested, whatever the fit
\* flags and the terminal, calculate_dimensions returns the width w and the
\* height round(source_height * w / source_width) (source width positive).
C15_ExplicitWidthKeepsAspect ==
    (DimsReturned /\ WidthOnly /\ args.img_dims[1] > 0) =>
        ret.dims = <<args.conf_size[1].v,
                     RoundDiv(args.img_dims[2] * args.conf_size[1].v, args.img_dims[1])>>

\* no-resize alone: no explicit size and no other fit flag.
NoResizeOnly ==
    /\ args.noresize
    /\ ~args.fullwidth /\ ~args.fullheight /\ ~args.resize
    /\ ~args.conf_size[1].some /\ ~args.conf_size[2].some

\* C16: with no-resize set and neither an explicit width or height nor
\* another fit flag, calculate_dimensions returns exactly the source width
\* and height, for every source and terminal size.
C16_NoResizeKeepsSourceSize ==
    (DimsReturned /\ NoResizeOnly) => ret.dims = args.img_dims

\* no-resize has kept a source larger than the terminal in both axes.
C16_Witness ==
    /\ DimsReturned /\ NoResizeOnly
    /\ args.img_dims = <<1000, 900>> /\ args.term_size = <<80, 10>>
    /\ ret.dims = <<1000, 900>>

\* Automatic fitting applies: nothing is requested, the terminal's size is
\* positive and the source is larger than it in some axis.
AutoFitApplies ==
    /\ ~args.conf_size[1].some /\ ~args.conf_size[2].some
    /\ ~args.fullwidth /\ ~args.fullheight /\ ~args.resize /\ ~args.noresize
    /\ args.term_size[1] > 0 /\ args.term_size[2] > 0
    /\ (args.img_dims[1] > args.term_size[1] \/ args.img_dims[2] > args.term_size[2])

\* C18: whenever automatic fitting applies, the returned width is at most
\* the terminal's width and the returned height at most the terminal's
\* height.
C18_AutoFitWithinTerminal ==
    (DimsReturned /\ AutoFitApplies) =>
        /\ ret.dims[1] <= args.term_size[1]
        /\ ret.dims[2] <= args.term_size[2]

(***************************************************************************)
(* main and run                                                            *)
(*                                                                         *)
(* mpc is the place of main: "main" before prepare_writer, "run" at the    *)
(* head of run, "file" at the head of the for loop, "load" while the       *)
(* dispatcher works, "render" while render_image works, "returned" when    *)
(* run has returned Ok(exit_code), "failed" when run has returned Err,     *)
(* "failed_stderr" when it did so because a write to err_writer failed,    *)
(* "aborted" when the process died of stack exhaustion, "exit" after       *)
(* process::exit(exit_code), "error" when main has returned Err.           *)
(* idx is 0 while the piped input is handled and the index of the file at  *)
(* hand in the for loop.  attempted records what happened to each file.    *)
(***************************************************************************)
\* str::contains
StrContains(s, t) == \E i \in 1..(Len(s) - Len(t) + 1) : SubSeq(s, i, i + Len(t) - 1) = t

\* Line 319: the bytes that clear the terminal.
ClearSeq == <<ESC, "_", "G", "a", "=", "d", ESC, "\\">>

\* prepare_writer (lines 424-462): canonicalize fails on a destination that
\* does not exist; an existing one is refused without --overwrite; the
\* temporary file is the file system's to give.
PrepareWriter ==
    /\ mpc = "main"
    /\ IF ~conf.output.some
       THEN mpc' = "run" /\ temp' = FALSE
       ELSE IF ~dest.exists
       THEN mpc' = "error" /\ temp' = FALSE
       ELSE IF ~conf.overwrite
       THEN mpc' = "error" /\ temp' = FALSE
       ELSE \E created \in BOOLEAN :
               /\ temp' = created
               /\ mpc' = IF created THEN "run" ELSE "error"
    /\ UNCHANGED <<libVars, loadVars, renderVars, stdin, dest, exit_code, idx,
                   attempted, err_out>>

Line(text, path) == [text |-> text, path |-> path]

\* writeln!(err_writer, ...)?: the line is written and run goes on to
\* next_mpc with code, or the write fails and run returns the error.
ErrWriteln(line, next_mpc, code) ==
    \E written \in BOOLEAN :
       IF written
       THEN /\ err_out' = Append(err_out, line)
            /\ mpc' = next_mpc
            /\ exit_code' = code
       ELSE /\ err_out' = err_out
            /\ mpc' = "failed_stderr"
            /\ exit_code' = exit_code

\* Lines 318-362, 385-386 and 413-419: run up to the dispatch of the piped
\* input or the head of the for loop.
RunStart ==
    /\ mpc = "run"
    /\ LET use_stdin == stdin.available /\ ~conf.tty
           parsed == IF conf.pages.some THEN parse_pages(conf.pages.v) ELSE Ok(None)
       IN IF conf.clear
          THEN /\ \E written \in BOOLEAN :
                     IF written
                     THEN out' = out \o ClearSeq /\ mpc' = "returned" /\ exit_code' = 0
                     ELSE out' = out /\ mpc' = "failed" /\ exit_code' = exit_code
               /\ UNCHANGED <<ctx, frame, hops, load_res, idx, err_out>>
          ELSE IF conf.output.some /\ ~use_stdin /\ Len(conf.files) > 1
          THEN /\ ErrWriteln(Line("Error: Cannot specify multiple files with --output", <<>>),
                             "returned", 1)
               /\ UNCHANGED <<ctx, frame, hops, load_res, idx, out>>
          ELSE IF conf.pages.some /\ ~use_stdin /\ Len(conf.files) > 1
          THEN /\ ErrWriteln(Line("Error: Cannot specify multiple files with --pages", <<>>),
                             "returned", 1)
               /\ UNCHANGED <<ctx, frame, hops, load_res, idx, out>>
          ELSE IF parsed.tag = "Err"
          THEN /\ ErrWriteln(Line("Error: Invalid page range", <<>>), "returned", 1)
               /\ UNCHANGED <<ctx, frame, hops, load_res, idx, out>>
          ELSE /\ ctx' = [input_type |-> conf.input, conf_w |-> conf.width,
                          conf_h |-> conf.height, term_width |-> term_size[1],
                          term_height |-> term_size[2], page_indices |-> parsed.val]
               /\ IF use_stdin
                  THEN /\ frame' = DataFrame(stdin.data, <<>>)
                       /\ hops' = 0
                       /\ load_res' = NoRet
                       /\ idx' = 0
                       /\ mpc' = "load"
                       /\ UNCHANGED <<exit_code, err_out, out>>
                  ELSE IF conf.files # <<>>
                  THEN /\ idx' = 1
                       /\ exit_code' = 0
                       /\ mpc' = "file"
                       /\ UNCHANGED <<frame, hops, load_res, err_out, out>>
                  ELSE /\ ErrWriteln(Line("Error: No input files provided and no data piped to stdin.",
                                          <<>>), "returned", 1)
                       /\ UNCHANGED <<frame, hops, load_res, idx, out>>
    /\ UNCHANGED <<libVars, features, fs, decoder, conf, img, term_size, rpc,
                   final_img, header, encoded, pos, is_first, render_res, stdin,
                   dest, temp, attempted>>

Attempt(path) == [path |-> path, load |-> "none", fallback |-> "none", render |-> "none"]

\* Lines 387-391 and 412: the head of the for loop: the next file's name is
\* printed and load_file is called, or the loop has ended and run returns.
RunFile ==
    /\ mpc = "file"
    /\ IF idx > Len(conf.files)
       THEN /\ mpc' = "returned"
            /\ UNCHANGED <<frame, hops, load_res, exit_code, attempted, err_out>>
       ELSE LET path == conf.files[idx] IN
            \E written \in (IF conf.printname THEN BOOLEAN ELSE {TRUE}) :
               IF written
               THEN /\ err_out' = IF conf.printname THEN Append(err_out, Line("", path))
                                  ELSE err_out
                    /\ frame' = FileFrame(path)
                    /\ hops' = 0
                    /\ load_res' = NoRet
                    /\ attempted' = Append(attempted, Attempt(path))
                    /\ mpc' = "load"
                    /\ exit_code' = exit_code
               ELSE /\ mpc' = "failed_stderr"
                    /\ UNCHANGED <<frame, hops, load_res, exit_code, attempted, err_out>>
    /\ UNCHANGED <<libVars, features, fs, ctx, decoder, renderVars, stdin, dest,
                   temp, idx>>

\* load_file and load_data as run calls them.
RunLoadFile == mpc = "load" /\ LoadFile /\ UNCHANGED <<libVars, renderVars, runVars>>
RunLoadData == mpc = "load" /\ LoadData /\ UNCHANGED <<libVars, renderVars, runVars>>

\* load_data and load_file call each other without end once a file is met
\* a second time: MaxHops is more than the files that name a file, so a
\* dispatch that gets there has met one twice.  The stack runs out and the
\* process is killed.
StackOverflow ==
    /\ mpc = "load"
    /\ frame.kind = "data"
    /\ hops >= MaxHops
    /\ mpc' = "aborted"
    /\ UNCHANGED <<libVars, loadVars, renderVars, stdin, dest, temp, exit_code, idx,
                   attempted, err_out>>

\* The image a decoder hands back.
DecodedImage == TestImage(1, 1, 0)

\* render_image is entered with the decoded image.
EnterRender ==
    /\ img' = DecodedImage
    /\ rpc' = "start"
    /\ final_img' = Image(0, 0, <<>>)
    /\ header' = <<>>
    /\ encoded' = <<>>
    /\ pos' = 0
    /\ is_first' = TRUE
    /\ render_res' = NoRet
    /\ UNCHANGED <<conf, term_size, out>>

Logged(field, value) == [attempted EXCEPT ![Len(attempted)][field] = value]

\* Lines 391-392 and 398-409: load_file has returned in the for loop.  The
\* fallback viewer's answer is the environment's.
RunLoadedFile ==
    /\ mpc = "load"
    /\ idx >= 1
    /\ frame.kind = "done"
    /\ LET path == conf.files[idx] IN
       IF load_res.tag = "Ok"
       THEN /\ EnterRender
            /\ mpc' = "render"
            /\ attempted' = Logged("load", "Ok")
            /\ UNCHANGED <<exit_code, idx, err_out>>
       ELSE /\ UNCHANGED renderVars
            /\ idx' = idx + 1
            /\ IF ~conf.output.some /\ StrContains(load_res.msg, "Failed to decode")
               THEN \E shown \in BOOLEAN :
                       IF shown
                       THEN /\ attempted' = [Logged("load", "Err") EXCEPT
                                                ![Len(attempted)].fallback = "Ok"]
                            /\ mpc' = "file"
                            /\ UNCHANGED <<exit_code, err_out>>
                       ELSE /\ attempted' = [Logged("load", "Err") EXCEPT
                                                ![Len(attempted)].fallback = "Err"]
                            /\ ErrWriteln(Line("Error loading (Fallback failed)", path),
                                          "file", 1)
               ELSE /\ attempted' = Logged("load", "Err")
                    /\ ErrWriteln(Line("Error loading", path), "file", 1)
    /\ UNCHANGED <<libVars, loadVars, stdin, dest, temp>>

\* Lines 366-384: load_data has returned for the piped input.
RunLoadedStdin ==
    /\ mpc = "load"
    /\ idx = 0
    /\ frame.kind = "done"
    /\ IF load_res.tag = "Ok"
       THEN \E written \in (IF conf.printname THEN BOOLEAN ELSE {TRUE}) :
               IF written
               THEN /\ err_out' = IF conf.printname THEN Append(err_out, Line("stdin", <<>>))
                                  ELSE err_out
                    /\ EnterRender
                    /\ mpc' = "render"
                    /\ UNCHANGED exit_code
               ELSE /\ mpc' = "failed_stderr"
                    /\ UNCHANGED <<renderVars, exit_code, err_out>>
       ELSE /\ UNCHANGED renderVars
            /\ IF /\ ~conf.output.some
                  /\ StrContains(load_res.msg, "Failed to decode input")
                  /\ IsUtf8(stdin.data)
               THEN \E shown \in BOOLEAN :
                       /\ mpc' = IF shown THEN "returned" ELSE "failed"
                       /\ exit_code' = IF shown THEN 0 ELSE exit_code
                       /\ UNCHANGED err_out
               ELSE ErrWriteln(Line("Error decoding stdin", <<>>), "returned", 1)
    /\ UNCHANGED <<libVars, loadVars, stdin, dest, temp, idx, attempted>>

\* render_image as run calls it.
RunRenderPrepare == mpc = "render" /\ RenderPrepare /\ UNCHANGED <<libVars, loadVars, runVars>>
RunRenderFrame == mpc = "render" /\ RenderFrame /\ UNCHANGED <<libVars, loadVars, runVars>>
RunRenderFinish == mpc = "render" /\ RenderFinish /\ UNCHANGED <<libVars, loadVars, runVars>>

\* Lines 371, 393-396 and 421: render_image has returned.  In the for loop
\* its error is reported and the loop goes on; for the piped input it is
\* run's error.
RunRendered ==
    /\ mpc = "render"
    /\ rpc = "done"
    /\ IF idx >= 1
       THEN /\ idx' = idx + 1
            /\ IF render_res.tag = "Ok"
               THEN /\ attempted' = Logged("render", "Ok")
                    /\ mpc' = "file"
                    /\ UNCHANGED <<exit_code, err_out>>
               ELSE /\ attempted' = Logged("render", "Err")
                    /\ ErrWriteln(Line("Error rendering", conf.files[idx]), "file", 1)
       ELSE /\ mpc' = IF render_res.tag = "Ok" THEN "returned" ELSE "failed"
            /\ exit_code' = IF render_res.tag = "Ok" THEN 0 ELSE exit_code
            /\ UNCHANGED <<idx, attempted, err_out>>
    /\ UNCHANGED <<libVars, loadVars, renderVars, stdin, dest, temp>>

\* A mutant: the temporary file is committed whatever the code.
CommitAlways(code) == TRUE

\* Line 484: the temporary file is committed only on success.
Commit(code) == code = 0

\* Lines 480-489: run has returned a code: the temporary file is persisted
\* over the destination when the code allows it, then the process exits
\* with the code; a persist that fails is main's error.
MainExit ==
    /\ mpc = "returned"
    /\ IF temp /\ Commit(exit_code)
       THEN \E persisted \in BOOLEAN :
               IF persisted
               THEN dest' = [exists |-> TRUE, content |-> out] /\ mpc' = "exit"
               ELSE dest' = dest /\ mpc' = "error"
       ELSE dest' = dest /\ mpc' = "exit"
    /\ temp' = FALSE
    /\ UNCHANGED <<libVars, loadVars, renderVars, stdin, exit_code, idx, attempted,
                   err_out>>

\* Line 480: run's error is main's; the temporary file is dropped.
MainFail ==
    /\ mpc \in {"failed", "failed_stderr"}
    /\ mpc' = "error"
    /\ temp' = FALSE
    /\ UNCHANGED <<libVars, loadVars, renderVars, stdin, dest, exit_code, idx,
                   attempted, err_out>>

(***************************************************************************)
(* main on small command lines and file systems                            *)
(***************************************************************************)
PathC == <<"c", ".", "p", "d", "f">>
PathT == <<"t">>
PathN == <<"n", "o", ".", "p", "n", "g">>

\* a is an image, b holds its own name, c.pdf starts like XML, t is plain
\* text; no.png does not exist.
RunFs ==
    (PathA :> (ImageMagic \o <<"x">>)) @@ (PathB :> <<" ", "b", "\n">>)
    @@ (PathC :> <<"<", "?", "x", "m", "l", " ">>) @@ (PathT :> <<"h", "i">>)

FileLists ==
    {<<>>, <<PathA>>, <<PathT>>, <<PathC>>, <<PathN>>, <<PathB>>,
     <<PathT, PathA>>, <<PathA, PathT>>, <<PathB, PathA>>, <<PathN, PathA>>}

RunFeatureSets == {{}, {"pdf"}, {"svg", "pdf"}}

\* --output with and without --overwrite (which requires --output).
OutputOptions ==
    {[output |-> None, overwrite |-> FALSE],
     [output |-> Some(<<"o">>), overwrite |-> FALSE],
     [output |-> Some(<<"o">>), overwrite |-> TRUE]}

\* --pages: a page, and a range that parse_pages refuses.
PageOptions == {None, Some(<<"1">>), Some(<<"2", "-", "1">>)}

Flag(b) == IF b THEN 1 ELSE 0

\* The command lines: at most two options besides the files, and never
\* --pages with --input, which the argument parser refuses (line 160).
RunConfs ==
    {[DefaultConf EXCEPT !.files = f, !.output = o.output, !.overwrite = o.overwrite,
                         !.pages = p, !.input = t, !.printname = n, !.tty = y,
                         !.clear = c] :
        <<f, o, p, t, n, y, c>> \in
           {x \in FileLists \X OutputOptions \X PageOptions \X {"Auto", "Image"}
                  \X BOOLEAN \X BOOLEAN \X BOOLEAN :
               /\ ~(x[3].some /\ x[4] # "Auto")
               /\ Flag(x[2].output.some) + Flag(x[3].some) + Flag(x[4] # "Auto")
                  + Flag(x[5]) + Flag(x[6]) + Flag(x[7]) <= 2}}

\* Nothing piped, an image piped, plain text piped.
Stdins ==
    {[available |-> FALSE, data |-> <<>>],
     [available |-> TRUE, data |-> ImageMagic \o <<"x">>],
     [available |-> TRUE, data |-> <<"h", "i">>]}

\* The destination: absent, or a file of three bytes.
Dests == {[exists |-> FALSE, content |-> <<>>], [exists |-> TRUE, content |-> <<111, 108, 100>>]}

InitRun ==
    /\ LibIdle
    /\ features \in RunFeatureSets
    /\ fs = RunFs
    /\ ctx = DefaultCtx
    /\ frame = DoneFrame
    /\ hops = 0
    /\ decoder = <<>>
    /\ load_res = NoRet
    /\ conf \in RunConfs
    /\ img = Image(0, 0, <<>>)
    /\ term_size = <<800, 400>>
    /\ rpc = "idle"
    /\ final_img = Image(0, 0, <<>>)
    /\ header = <<>>
    /\ encoded = <<>>
    /\ pos = 0
    /\ is_first = TRUE
    /\ out = <<>>
    /\ render_res = NoRet
    /\ stdin \in Stdins
    /\ dest \in Dests
    /\ temp = FALSE
    /\ mpc = "main"
    /\ exit_code = 0
    /\ idx = 0
    /\ attempted = <<>>
    /\ err_out = <<>>

NextRun ==
    \/ PrepareWriter
    \/ RunStart
    \/ RunFile
    \/ RunLoadFile
    \/ RunLoadData
    \/ StackOverflow
    \/ RunLoadedFile
    \/ RunLoadedStdin
    \/ RunRenderPrepare
    \/ RunRenderFrame
    \/ RunRenderFinish
    \/ RunRendered
    \/ MainExit
    \/ MainFail

SpecRun == InitRun /\ [][NextRun]_vars

\* The decoder that an extension names in a build with the features f.
ExtensionDecoder(extension, f) ==
    IF extension = <<"s", "v", "g">> /\ "svg" \in f THEN "render_svg"
    ELSE IF extension = <<"p", "d", "f">> /\ "pdf" \in f THEN "render_pdf"
    ELSE IF /\ extension \in {<<"x", "l", "s", "x">>, <<"d", "o", "c", "x">>,
                              <<"p", "p", "t", "x">>}
            /\ "office" \in f THEN "render_office"
    ELSE IF extension \in {<<"h", "t", "m", "l">>, <<"h", "t", "m">>} /\ "html" \in f
    THEN "render_html_chrome"
    ELSE "none"

\* load_data is about to classify input whose type the user left to Auto.
ClassifyingAuto == mpc = "load" /\ frame.kind = "data" /\ hops < MaxHops /\ ctx.input_type = "Auto"

\* C12: with no explicit input type, the extension decides before the
\* content does: input whose extension names a format is handed to that
\* format's decoder, whatever its leading bytes are.
C12_ExtensionBeforeContent ==
    [][(ClassifyingAuto /\ ExtensionDecoder(frame.extension, features) # "none")
       => /\ Len(decoder') = Len(decoder) + 1
          /\ decoder'[Len(decoder')].name = ExtensionDecoder(frame.extension, features)]_vars

\* C13: a page selection forces the PDF decoder: with --pages given (in a
\* build that has the PDF decoder), whatever load_data classifies goes to
\* render_pdf with the parsed page indices, whatever its extension and
\* leading bytes are.
C13_PagesForcePdf ==
    [][(mpc = "load" /\ frame.kind = "data" /\ hops < MaxHops /\ conf.pages.some
        /\ "pdf" \in features)
       => decoder' = Append(decoder, [name |-> "render_pdf",
                                      pages |-> parse_pages(conf.pages.v).val])]_vars

\* A file failed: it did not load and no fallback viewer showed it, or it
\* loaded and did not render.
FileFailed(a) == (a.load = "Err" /\ a.fallback # "Ok") \/ a.render = "Err"

\* C14: once run is in its for loop, no file's decode or render failure
\* ends it: the process is not killed and run returns no error of a file
\* (only a failed write to err_writer is run's error there); when it
\* returns, every listed file was attempted, in list order, and the code is
\* 1 exactly when some file failed.
C14_EveryFileAttempted ==
    idx >= 1 =>
       /\ mpc \notin {"aborted", "failed"}
       /\ mpc = "returned" =>
             /\ Len(attempted) = Len(conf.files)
             /\ \A i \in 1..Len(attempted) : attempted[i].path = conf.files[i]
             /\ exit_code \in {0, 1}
             /\ exit_code = 1 <=> \E i \in 1..Len(attempted) : FileFailed(attempted[i])

\* C17: the destination file changes only when an output file was asked
\* for, run has returned the code 0 and, if a file was already there,
\* --overwrite was given; in every other step, whatever the outcome, the
\* destination keeps its previous content.
C17_DestinationOnlyOnSuccess ==
    [][dest' # dest =>
          /\ conf.output.some
          /\ mpc = "returned"
          /\ exit_code = 0
          /\ (dest.exists => conf.overwrite)]_vars

\* An existing destination was replaced by what a successful run wrote.
C17_Witness ==
    /\ mpc = "exit"
    /\ exit_code = 0
    /\ conf.output.some
    /\ conf.overwrite
    /\ dest.exists
    /\ out # <<>>
    /\ Len(dest.content) = Len(out)
    /\ dest.content = out

====
